---- MODULE Spec2Model ----
(***************************************************************************)
(* A model of the dogfight server: connection admission and arbitration,   *)
(* the inactivity sweep, match start/end, message dispatch and the combat  *)
(* (hit / kill / damage) handlers of server/index.js.                      *)
(*                                                                         *)
(* Time is in milliseconds.  Every `await` of the source is a point where  *)
(* the handler is suspended and any other handler may run, so each async   *)
(* handler is split into one action per run-to-completion segment.         *)
(***************************************************************************)
EXTENDS Integers, Sequences, FiniteSets, TLC

(***************************************************************************)
(* Bounds of the model.                                                    *)
(***************************************************************************)
MaxSockets == 3
MaxIdentities == 2
MaxMatches == 2
MaxMessages == 2
MaxPendingHits == 1
MaxPendingEndMatch == 1
MaxSmallTicks == 1
MaxSweepJumps == 1
HealthCap == 150
\* The damage value that damage messages report.
ReportedDamage == 50
\* The inputState bitmasks a NetworkManager sends.
InputStates == {1}
TickMs == 250
MaxConnections == 2
MaxSequence == 2
MaxQueue == 2
MaxElapses == 2
\* How many queued snapshots fill a socket's buffer, so that one more could
\* not be written without waiting.
HighWaterMark == 1
\* The lengths of the truncated INPUT packets a peer sends: one that ends
\* before the packet type, one that ends inside the input state.
TruncatedLengths == {2, 11}
\* The client receives at most MaxArrivals snapshots, its clock runs from 0
\* to MaxRenderTime in steps of RenderStep.
MaxArrivals == 4
RenderStep == 50
MaxRenderTime == 100
\* The lengths a STATE_UPDATE buffer is cut to: inside the header (before
\* and after the packet type), inside the first record, inside the second.
SnapshotCuts == {2, 7, 28, 74}
\* The render timestamps the client asks for.
QueryTimes == {0, 50, 100}
\* The frames of the client come half a movement interval apart, or FrameMs
\* more, up to MaxFrameTime; the keys of the model.
FrameMs == 1
MaxFrameTime == 7503
Keys == {"forward", "left"}
\* The WebSockets one SocketManager creates, the messages on their way to
\* one of them, and the reconnect timers pending together.
MaxClientSockets == 3
MaxInbox == 2
MaxReconnectTimers == 1
\* The entries of the stream and the entries of one xreadgroup response.
MaxEvents == 3
MaxBatch == 2

(***************************************************************************)
(* Program constants.                                                      *)
(***************************************************************************)
INACTIVE_TIMEOUT == 120000
shotCooldown == 500
maxHealth == 100
initialHealth == 100
defaultKillDamage == 100
tickRate == 60
PlayerIdRange == 65536
SequenceRange == 65536
BUFFER_SIZE == 3
HEADER_SIZE == 8
PLAYER_STATE_SIZE == 46
movementEventInterval == 5000
maxReconnectAttempts == 10
maxConsecutivePingFailures == 1
\* The integers up to 2^24 are float32 values.
FloatExact == 16777216
INPUT_PACKET_SIZE == 12

Sockets == 1..MaxSockets
Identities == 1..MaxIdentities

\* Date.now() at server start: any value that is at least shotCooldown past
\* the epoch (lastShotTime starts at 0).
StartTime == shotCooldown

MaxTime == StartTime + MaxSmallTicks * TickMs + MaxSweepJumps * (INACTIVE_TIMEOUT + 1)

\* The clock schedule: MaxSmallTicks steps of TickMs, then MaxSweepJumps
\* jumps past the inactivity timeout.
LastSmallTime == StartTime + MaxSmallTicks * TickMs

\* How far Date.now() advances between two handler runs.
TickSteps(t) == IF t < LastSmallTime THEN {TickMs} ELSE {INACTIVE_TIMEOUT + 1}

\* Values a client can put in a message.
Damages == {50, 100, 0 - 50}
spawnPosition == <<0, 0, 0>>
respawnPosition == <<0, 10, 0>>
clientPosition == <<7, 7, 7>>
identityRotation == <<0, 0, 0, 1>>
clientRotation == <<0, 1, 0, 0>>
None == <<>>
\* A movement message: its sequence number, which handleMovementEvent does
\* not read, and event.position and event.rotation (None: absent or not an
\* array).
MovementInputs == {[sequence |-> 2, position |-> clientPosition, rotation |-> None],
                   [sequence |-> 1, position |-> clientPosition, rotation |-> clientRotation]}
\* The JSON string "p" naming identity p (playerId itself is a number: users.id
\* is SERIAL); it is no key of a Map whose keys are numbers.
StringId(p) == MaxIdentities + p
\* data.victimId of a hit, kill or damage message (0: absent).
VictimInputs == {0} \cup Identities \cup {StringId(p) : p \in Identities}

\* The WebSockets one SocketManager creates.
ClientSockets == 1..MaxClientSockets
\* A WebSocket that has not been created.
NoWebSocket == [readyState |-> "NONE", code |-> 0, admitted |-> FALSE]

VARIABLES
    now,                \* Date.now()
    ws,                 \* wss.clients and the closure state of each connection handler;
                        \* heard is history: when the socket was registered or last
                        \* delivered a message
    players,            \* const players = new Map()
    activeConnections,  \* const activeConnections = new Map()
    playerUserMap,      \* gameState.playerUserMap (playerId -> userId, userId = playerId)
    currentMatchId,     \* gameState.currentMatchId (0 is null)
    nextMatchId,        \* the id the next INSERT INTO matches returns
    pendingHits,        \* handlePlayerHit invocations suspended in GameEventService.handlePlayerKill
    pendingEndMatch,    \* endMatch invocations suspended in GameEventService.endMatch
    received,           \* how many client messages the server has handled
    lastAccepted,       \* history: when handlePlayerHit last accepted a hit of each attacker
    lastApplied,        \* history: the sequence number of the movement message
                        \* handleMovementEvent last applied for each socket
    logged,             \* the rejections and errors the last step wrote to the console
    sent,               \* the combat messages (player-hit, player-death, player-killed,
                        \* player-damaged) the last step broadcast, with their recipients
    \* The server with the game loop and its NetworkManager clients.
    rangeChecked,       \* whether buffer.writeUInt32BE throws on a value above 0xFFFFFFFF
    running,            \* the server process has not died of an uncaught exception
    tickPlayers,        \* const players = new Map() of the game-loop server
    lastUpdate,         \* gameState.lastUpdate
    clients,            \* wss.clients and the playerId of each connection handler
    manager,            \* the NetworkManager at the other end of each connection
    inputs,             \* INPUT packets on their way to the server, per connection
    snapshots,          \* STATE_UPDATE packets queued for each connection and not yet
                        \* received by its NetworkManager
    \* The snapshot codec and the client that decodes and renders.
    wire,               \* the STATE_UPDATE buffer on its way to the client, if any
    interpolationBuffer,\* NetworkManager.interpolationBuffer
    gameState,          \* NetworkManager.gameState
    thrown,             \* the last client handler ended in an exception
    updated,            \* the onUpdate calls of the last SocketManager.handleBinaryMessage
    rendered,           \* the last getInterpolatedState(timestamp) and what it returned
    arrived,            \* history: the snapshots processStateUpdate has buffered
    \* StateSync of the client.
    lastInputState,     \* StateSync.lastInputState, the set of its true flags
    lastMovementTime,   \* StateSync.lastMovementTime
    synced,             \* the last StateSync.update: its time, its inputState and
                        \* whether it passed a movement event to onMovementEvent
    \* SocketManager of the client and the WebSockets it has created.
    webSockets,         \* every WebSocket connect() has created: its readyState, the
                        \* close code its close() call has requested (0: none), and
                        \* whether the server has admitted it
    socket,             \* SocketManager.socket (0 is null)
    username,           \* SocketManager.username (0 is null): the identity the server
                        \* assigns to this user
    this_playerId,      \* SocketManager.playerId (0 is null)
    reconnectAttempts,  \* SocketManager.reconnectAttempts
    reconnectTimers,    \* the pending setTimeout(() => this.connect()) of scheduleReconnect
    keepAliveInterval,  \* the setInterval of startKeepAlive is running
    keepAliveTimeout,   \* the setTimeout of resetKeepAliveTimeout is pending
    consecutivePingFailures, \* SocketManager.consecutivePingFailures
    inbox,              \* the messages on their way to each WebSocket
    pinged,             \* history: the sockets with a ping sent and no pong received since
    disconnected,       \* history: disconnect() has been called
    reported,           \* history: the ids the last processStateUpdate passed to onUpdate
    \* GameEventWorker, its Redis stream and its database.
    batch,              \* the events of the xreadgroup response processBatch works on
    cursor,             \* the index in batch of the event the for loop is at
    workerPc,           \* where processBatch is suspended
    transaction,        \* the state of the client's database transaction
    staged,             \* the hit_log rows inserted in the open transaction
    hit_log,            \* the committed rows of hit_log, by event_id
    processedEvents,    \* const processedEvents = []
    acked,              \* the stream entries acknowledged with XACK
    delivered           \* the stream entries xreadgroup has delivered

loopVars == <<rangeChecked, running, tickPlayers, lastUpdate, clients, manager,
              inputs, snapshots>>

indexVars == <<ws, players, activeConnections, playerUserMap,
               currentMatchId, nextMatchId, pendingHits, pendingEndMatch, received,
               lastAccepted, lastApplied, logged, sent>>

\* The state of the snapshot codec and of the client's NetworkManager and
\* SocketManager.
clientVars == <<wire, interpolationBuffer, gameState, thrown, updated, rendered, arrived>>

\* The state of the client's StateSync.
syncVars == <<lastInputState, lastMovementTime, synced>>

\* The state of the client's SocketManager.
socketVars == <<webSockets, socket, username, this_playerId, reconnectAttempts, reconnectTimers,
                keepAliveInterval, keepAliveTimeout, consecutivePingFailures, inbox,
                pinged, disconnected, reported>>

\* The state of the event worker, its stream and its database.
workerVars == <<batch, cursor, workerPc, transaction, staged, hit_log, processedEvents,
                acked, delivered>>

extraVars == <<syncVars, socketVars, workerVars>>

vars == <<now, indexVars, loopVars, clientVars, extraVars>>

(***************************************************************************)
(* Records.                                                                *)
(***************************************************************************)
NoSocket == [readyState |-> "NONE", pc |-> "none", username |-> 0, playerId |-> 0, wsId |-> 0, heard |-> 0]
\* A socket that is closed and whose handlers will never run again.
DeadSocket == [readyState |-> "CLOSED", pc |-> "ended", username |-> 0, playerId |-> 0, wsId |-> 0, heard |-> 0]
NoPlayer == [gen |-> 0, health |-> 0, position |-> spawnPosition,
             rotation |-> identityRotation, lastShotTime |-> 0]
NoConnection == [ws |-> 0, lastActivity |-> 0]

\* players.set(playerId, {...}) of the connection handler; gen names the
\* socket whose handler created the object (the object's identity).
NewPlayer(s) == [gen |-> s, health |-> initialHealth, position |-> spawnPosition,
                 rotation |-> identityRotation, lastShotTime |-> 0]

HasPlayer(p) == p \in Identities /\ players[p].gen # 0
PlayerCount(pl) == Cardinality({p \in Identities : pl[p].gen # 0})

\* wss.clients.forEach(client => client.readyState === WebSocket.OPEN ...)
OpenClients(w) == {s \in Sockets : w[s].readyState = "OPEN"}

Msg(type, a, v, h, to) == [type |-> type, a |-> a, v |-> v, h |-> h, to |-> to]

\* A close() that ends a closing handshake already under way at once.
CloseSocket_Terminate(sock) ==
    [sock EXCEPT !.readyState = IF @ = "OPEN" THEN "CLOSING" ELSE "CLOSED"]

\* ws.close(): an OPEN socket starts its closing handshake; the 'close'
\* event is emitted later.
CloseSocket(sock) == IF sock.readyState = "OPEN"
                     THEN [sock EXCEPT !.readyState = "CLOSING"]
                     ELSE sock

(***************************************************************************)
(* The server with the game loop: its state after start-up.                *)
(***************************************************************************)
Connections == 1 .. MaxConnections
NoClient == [readyState |-> "NONE", playerId |-> 0]
\* The fields of a NetworkManager.
NewManager == [sequence |-> 0, lastProcessedSequence |-> 0, pendingInputs |-> <<>>,
               interpolationBuffer |-> <<>>, lastServerUpdate |-> 0]

InitLoop ==
    /\ running = TRUE
    /\ tickPlayers = <<>>
    /\ lastUpdate = StartTime
    /\ clients = [c \in Connections |-> NoClient]
    /\ manager = [c \in Connections |-> NewManager]
    /\ inputs = [c \in Connections |-> <<>>]
    /\ snapshots = [c \in Connections |-> <<>>]

InitIndex ==
    /\ ws = [s \in Sockets |-> NoSocket]
    /\ players = [p \in Identities |-> NoPlayer]
    /\ activeConnections = [p \in Identities |-> NoConnection]
    /\ playerUserMap = {}
    /\ currentMatchId = 0
    /\ nextMatchId = 1
    /\ pendingHits = {}
    /\ pendingEndMatch = 0
    /\ received = 0
    /\ lastAccepted = [p \in Identities |-> 0]
    /\ lastApplied = [s \in Sockets |-> 0]
    /\ logged = {}
    /\ sent = {}

\* new NetworkManager(): nothing buffered, gameState.players an empty Map.
InitClient ==
    /\ wire = <<>>
    /\ interpolationBuffer = <<>>
    /\ gameState = [players |-> <<>>, lastServerUpdate |-> 0, pendingInputs |-> <<>>]
    /\ thrown = FALSE
    /\ updated = <<>>
    /\ rendered = [timestamp |-> 0 - 1, state |-> <<>>]
    /\ arrived = <<>>

\* new StateSync()
InitSync ==
    /\ lastInputState = {}
    /\ lastMovementTime = 0
    /\ synced = [at |-> 0 - 1, inputState |-> {}, event |-> FALSE]

\* new SocketManager(...): no socket, no timers.
InitSocket ==
    /\ webSockets = [k \in ClientSockets |-> NoWebSocket]
    /\ socket = 0
    /\ username = 0
    /\ this_playerId = 0
    /\ reconnectAttempts = 0
    /\ reconnectTimers = 0
    /\ keepAliveInterval = FALSE
    /\ keepAliveTimeout = FALSE
    /\ consecutivePingFailures = 0
    /\ inbox = [k \in ClientSockets |-> <<>>]
    /\ pinged = {}
    /\ disconnected = FALSE
    /\ reported = {}

\* new GameEventWorker() after initialize(): an empty hit_log, nothing
\* delivered.
InitWorker ==
    /\ batch = <<>>
    /\ cursor = 0
    /\ workerPc = "read"
    /\ transaction = "none"
    /\ staged = {}
    /\ hit_log = {}
    /\ processedEvents = <<>>
    /\ acked = {}
    /\ delivered = {}

InitExtra ==
    /\ InitSync
    /\ InitSocket
    /\ InitWorker

Init ==
    /\ now = StartTime
    /\ InitIndex
    /\ InitLoop
    /\ InitClient
    /\ InitExtra
    /\ rangeChecked = TRUE

(***************************************************************************)
(* The clock.                                                              *)
(***************************************************************************)
Tick(d) ==
    /\ d \in TickSteps(now)
    /\ now + d <= MaxTime
    /\ now' = now + d
    /\ sent' = {} /\ logged' = {}
    /\ UNCHANGED <<extraVars, clientVars, loopVars, lastApplied, ws, players, activeConnections, playerUserMap, currentMatchId,
                   nextMatchId, pendingHits, pendingEndMatch, received, lastAccepted>>

(***************************************************************************)
(* wss.on('connection'): admission.                                        *)
(***************************************************************************)
\* A client opens a socket with ?username=u; the handler runs up to
\* `await GameEventService.createOrGetUser(username)`.
Connect(s, u) ==
    /\ ws[s].pc = "none"
    /\ \A t \in Sockets : t < s => ws[t].pc # "none"
    /\ ws' = [ws EXCEPT ![s] = [readyState |-> "OPEN", pc |-> "lookup",
                                username |-> u, playerId |-> 0, wsId |-> 0, heard |-> 0]]
    /\ sent' = {} /\ logged' = {}
    /\ UNCHANGED <<extraVars, clientVars, loopVars, lastApplied, now, players, activeConnections, playerUserMap,
                   currentMatchId, nextMatchId, pendingHits, pendingEndMatch, received, lastAccepted>>

\* The handler sends an error, calls ws.close(1000, ...) and returns without
\* registering the message and close handlers: the socket is never OPEN
\* again and nothing of it is read again.
AdmissionFailed(s) ==
    /\ ws' = [ws EXCEPT ![s] = DeadSocket]
    /\ sent' = {} /\ logged' = {}

\* const wsId = uuidv4(): a token no other socket carries.
uuidv4(s) == s

\* The synchronous tail of the handler: the socket is tagged (ws.playerId,
\* ws.wsId), activeConnections.set, players.set, the initial state, welcome
\* and player-joined messages, and the registration of the message and
\* close handlers.
Register(s, pid, w) ==
    /\ ws' = [w EXCEPT ![s].pc = "admitted", ![s].playerId = pid, ![s].wsId = uuidv4(s),
                       ![s].heard = now]
    /\ activeConnections' = [activeConnections EXCEPT ![pid] = [ws |-> s, lastActivity |-> now]]
    /\ players' = [players EXCEPT ![pid] = NewPlayer(s)]
    /\ sent' = {} /\ logged' = {}

\* createOrGetUser resolves (ok) or rejects; then the duplicate check, and
\* the handler suspends in startMatch() or in addPlayerToMatch().
LookupDone(s, ok) ==
    /\ ws[s].pc = "lookup"
    /\ LET pid == ws[s].username IN
       IF ~ok
       THEN /\ AdmissionFailed(s)
            /\ UNCHANGED <<players, activeConnections>>
       ELSE IF HasPlayer(pid)
       THEN /\ AdmissionFailed(s)
            /\ UNCHANGED <<players, activeConnections>>
       ELSE /\ ws' = [ws EXCEPT ![s].playerId = pid,
                                ![s].pc = IF currentMatchId = 0 THEN "start" ELSE "add"]
            /\ sent' = {} /\ logged' = {}
            /\ UNCHANGED <<players, activeConnections>>
    /\ UNCHANGED <<extraVars, clientVars, loopVars, lastApplied, now, playerUserMap, currentMatchId, nextMatchId,
                   pendingHits, pendingEndMatch, received, lastAccepted>>

\* startMatch(): GameEventService.createMatch() resolves with a new match id
\* (ok) or rejects (startMatch catches and returns null).  The handler then
\* suspends in addPlayerToMatch() if a match is current, else registers.
StartMatchDone(s, ok) ==
    /\ ws[s].pc = "start"
    /\ ok => nextMatchId <= MaxMatches
    /\ LET pid == ws[s].playerId
           match == IF ok THEN nextMatchId ELSE currentMatchId
       IN  /\ currentMatchId' = match
           /\ nextMatchId' = IF ok THEN nextMatchId + 1 ELSE nextMatchId
           /\ IF match # 0
              THEN /\ ws' = [ws EXCEPT ![s].pc = "add"]
                   /\ sent' = {} /\ logged' = {}
                   /\ UNCHANGED <<players, activeConnections>>
              ELSE Register(s, pid, ws)
    /\ UNCHANGED <<extraVars, clientVars, loopVars, lastApplied, now, playerUserMap, pendingHits, pendingEndMatch, received, lastAccepted>>

\* GameEventService.addPlayerToMatch resolves (ok): playerUserMap.set and the
\* registration; or rejects: the catch block.
AddPlayerDone(s, ok) ==
    /\ ws[s].pc = "add"
    /\ LET pid == ws[s].playerId IN
       IF ok
       THEN /\ playerUserMap' = playerUserMap \cup {pid}
            /\ Register(s, pid, ws)
       ELSE /\ AdmissionFailed(s)
            /\ UNCHANGED <<playerUserMap, players, activeConnections>>
    /\ UNCHANGED <<extraVars, clientVars, loopVars, lastApplied, now, currentMatchId, nextMatchId, pendingHits, pendingEndMatch, received, lastAccepted>>

(***************************************************************************)
(* ws.on('close') and endMatch.                                            *)
(***************************************************************************)
\* The socket's 'close' event: the peer closed or dropped the connection,
\* or the closing handshake the server started has completed.  The close
\* handler runs only if the connection handler has registered it.
CloseEvent(s) ==
    /\ ws[s].readyState \in {"OPEN", "CLOSING"}
    /\ IF ws[s].pc = "admitted"
       THEN LET pid == ws[s].playerId
                pl == [players EXCEPT ![pid] = NoPlayer]
                w == [ws EXCEPT ![s] = DeadSocket]
                ending == PlayerCount(pl) = 0 /\ currentMatchId # 0
            IN  /\ ending => pendingEndMatch < MaxPendingEndMatch
                /\ ws' = w
                /\ players' = pl
                /\ playerUserMap' = playerUserMap \ {pid}
                /\ activeConnections' = [activeConnections EXCEPT ![pid] = NoConnection]
                /\ sent' = {} /\ logged' = {}
                /\ pendingEndMatch' = IF ending THEN pendingEndMatch + 1 ELSE pendingEndMatch
       ELSE /\ ws' = [ws EXCEPT ![s].readyState = "CLOSED"]
            /\ sent' = {} /\ logged' = {}
            /\ UNCHANGED <<players, playerUserMap, activeConnections, pendingEndMatch>>
    /\ UNCHANGED <<extraVars, clientVars, loopVars, lastApplied, now, currentMatchId, nextMatchId, pendingHits, received, lastAccepted>>

\* endMatch() resumes after `await GameEventService.endMatch(...)`.
EndMatchDone(ok) ==
    /\ pendingEndMatch > 0
    /\ pendingEndMatch' = pendingEndMatch - 1
    /\ IF ok
       THEN /\ sent' = {} /\ logged' = {}
            /\ currentMatchId' = 0
            /\ playerUserMap' = {}
       ELSE /\ sent' = {} /\ logged' = {}
            /\ UNCHANGED <<currentMatchId, playerUserMap>>
    /\ UNCHANGED <<extraVars, clientVars, loopVars, lastApplied, now, ws, players, activeConnections, nextMatchId, pendingHits, received, lastAccepted>>

(***************************************************************************)
(* ws.on('message').                                                       *)
(***************************************************************************)
\* Whether a message can be delivered to the handler registered for s.
Receiving(s) ==
    /\ ws[s].pc = "admitted"
    /\ ws[s].readyState = "OPEN"
    /\ received < MaxMessages
    /\ received' = received + 1
    /\ ws' = [ws EXCEPT ![s].heard = now]

\* const connection = activeConnections.get(playerId);
\* if (connection) connection.lastActivity = Date.now();
Touch(pid) == IF activeConnections[pid].ws # 0
              THEN [activeConnections EXCEPT ![pid].lastActivity = now]
              ELSE activeConnections

\* 'ping' (raw or JSON), a payload JSON.parse rejects, a message of a type
\* the switch does not handle, or a hit/kill/damage whose victimId is absent
\* or the sender: only the activity time is updated.
OtherMessage(s) ==
    /\ Receiving(s)
    /\ activeConnections' = Touch(ws[s].playerId)
    /\ sent' = {} /\ logged' = {}
    /\ UNCHANGED <<extraVars, clientVars, loopVars, lastApplied, now, players, playerUserMap, currentMatchId, nextMatchId,
                   pendingHits, pendingEndMatch, lastAccepted>>

\* case 'movement': handleMovementEvent(playerId, data, ws)
handleMovementEvent(pid, hasInput, event) ==
    IF ~HasPlayer(pid) \/ ~hasInput
    THEN players
    ELSE [players EXCEPT
            ![pid].position = IF event.position # None THEN event.position ELSE @,
            ![pid].rotation = IF event.rotation # None THEN event.rotation ELSE @]

MovementMessage(s, hasInput, event) ==
    /\ Receiving(s)
    /\ activeConnections' = Touch(ws[s].playerId)
    /\ players' = handleMovementEvent(ws[s].playerId, hasInput, event)
    /\ lastApplied' = IF HasPlayer(ws[s].playerId) /\ hasInput
                      THEN [lastApplied EXCEPT ![s] = event.sequence]
                      ELSE lastApplied
    /\ sent' = {} /\ logged' = {}
    /\ UNCHANGED <<extraVars, clientVars, loopVars, now, playerUserMap, currentMatchId, nextMatchId,
                   pendingHits, pendingEndMatch, lastAccepted>>

\* The respawn of handlePlayerHit, written to the victim object the handler
\* holds: the object created by socket gen.  If players no longer maps
\* victimId to that object the write is not visible in players.
Respawn(pl, victimId, gen) ==
    IF pl[victimId].gen = gen /\ gen # 0
    THEN [pl EXCEPT ![victimId].health = maxHealth,
                    ![victimId].position = respawnPosition,
                    ![victimId].rotation = identityRotation]
    ELSE pl

\* The early returns without the cooldown check.
HitAccepted_NoCooldown(attackerId, victimId) ==
    /\ currentMatchId # 0
    /\ HasPlayer(attackerId)
    /\ HasPlayer(victimId)

\* Whether handlePlayerHit gets past its early returns.
HitAccepted(attackerId, victimId) ==
    /\ currentMatchId # 0
    /\ HasPlayer(attackerId)
    /\ HasPlayer(victimId)
    /\ ~(now - players[attackerId].lastShotTime < shotCooldown)

\* What handlePlayerHit logs when it returns early: nothing without a match,
\* else the missing player, else the cooldown.
HitRejection(attackerId, victimId) ==
    IF currentMatchId = 0 THEN {}
    ELSE IF ~HasPlayer(attackerId) \/ ~HasPlayer(victimId)
    THEN {[line |-> "Player not found", attacker |-> attackerId, victim |-> victimId]}
    ELSE {[line |-> "Shot rejected", attacker |-> attackerId, victim |-> 0]}

\* victim.health = Math.max(0, victim.health - damage)
HealthAfterHit(health, damage) == IF health - damage < 0 THEN 0 ELSE health - damage

\* A dispatch that lets every message that names a victim through.
Dispatched_NoSelfCheck(victimId, playerId) == victimId # 0

\* if (data.victimId && data.victimId !== playerId)
Dispatched(victimId, playerId) == victimId # 0 /\ victimId # playerId

\* case 'hit': handlePlayerHit(playerId, data.victimId, data.damage, ...),
\* up to its end or to `await GameEventService.handlePlayerKill(...)`.
HitMessage(s, victimId, damage) ==
    /\ Receiving(s)
    /\ activeConnections' = Touch(ws[s].playerId)
    /\ LET attackerId == ws[s].playerId IN
       IF ~Dispatched(victimId, attackerId)
       THEN /\ sent' = {} /\ logged' = {}
            /\ UNCHANGED <<players, pendingHits, lastAccepted>>
       ELSE IF ~HitAccepted(attackerId, victimId)
       THEN /\ sent' = {}
            /\ logged' = HitRejection(attackerId, victimId)
            /\ UNCHANGED <<players, pendingHits, lastAccepted>>
       ELSE LET health == HealthAfterHit(players[victimId].health, damage)
                hit == [players EXCEPT ![attackerId].lastShotTime = now,
                                       ![victimId].health = health]
                hitMessage == Msg("player-hit", attackerId, victimId, health, OpenClients(ws))
                deathMessage == Msg("player-death", attackerId, victimId, 0, OpenClients(ws))
            IN  /\ health <= HealthCap
                /\ lastAccepted' = [lastAccepted EXCEPT ![attackerId] = now]
                /\ logged' = {}
                /\ IF ~(health <= 0)
                   THEN /\ players' = hit
                        /\ sent' = {hitMessage}
                        /\ UNCHANGED pendingHits
                   ELSE IF attackerId \in playerUserMap /\ victimId \in playerUserMap
                   THEN /\ Cardinality(pendingHits) < MaxPendingHits
                        /\ players' = hit
                        /\ sent' = {hitMessage}
                        /\ pendingHits' = pendingHits \cup
                               {[attackerId |-> attackerId, victimId |-> victimId,
                                 gen |-> players[victimId].gen,
                                 from |-> players[victimId].health]}
                   ELSE /\ players' = Respawn(hit, victimId, players[victimId].gen)
                        /\ sent' = {hitMessage, deathMessage}
                        /\ UNCHANGED pendingHits
    /\ UNCHANGED <<extraVars, clientVars, loopVars, lastApplied, now, playerUserMap, currentMatchId, nextMatchId, pendingEndMatch>>

\* handlePlayerHit resumes after `await GameEventService.handlePlayerKill`:
\* the respawn and the player-death broadcast (ok), or the catch block.
HitResume(h, ok) ==
    /\ h \in pendingHits
    /\ pendingHits' = pendingHits \ {h}
    /\ IF ok
       THEN /\ players' = Respawn(players, h.victimId, h.gen)
            /\ sent' = {Msg("player-death", h.attackerId, h.victimId, 0, OpenClients(ws))}
            /\ logged' = {}
       ELSE /\ sent' = {}
            /\ logged' = {[line |-> "Error handling player hit", attacker |-> 0, victim |-> 0]}
            /\ UNCHANGED players
    /\ UNCHANGED <<extraVars, clientVars, loopVars, lastApplied, now, ws, activeConnections, playerUserMap, currentMatchId, nextMatchId,
                   pendingEndMatch, received, lastAccepted>>

\* case 'kill': handlePlayerKill(playerId, data.victimId, data.damage); an
\* absent damage is defaultKillDamage, and ok is whether
\* GameEventService.handlePlayerKill resolves.  The handler changes no
\* server state; its broadcast is recorded in the step that starts it.
KillMessage(s, victimId, damage, ok) ==
    /\ Receiving(s)
    /\ Dispatched(victimId, ws[s].playerId)
    /\ activeConnections' = Touch(ws[s].playerId)
    /\ LET attackerId == ws[s].playerId
           persisting == /\ currentMatchId # 0
                         /\ attackerId \in playerUserMap
                         /\ victimId \in playerUserMap
       IN  /\ sent' = IF persisting /\ ok
                      THEN {Msg("player-killed", attackerId, victimId, damage, OpenClients(ws))}
                      ELSE {}
           /\ logged' = IF persisting /\ ~ok THEN {[line |-> "Error handling player kill", attacker |-> 0, victim |-> 0]} ELSE {}
    /\ UNCHANGED <<extraVars, clientVars, loopVars, lastApplied, now, players, playerUserMap, currentMatchId, nextMatchId,
                   pendingHits, pendingEndMatch, lastAccepted>>

\* case 'damage': handlePlayerDamage(playerId, data.victimId, data.damage)
DamageMessage(s, victimId, damage) ==
    /\ Receiving(s)
    /\ Dispatched(victimId, ws[s].playerId)
    /\ activeConnections' = Touch(ws[s].playerId)
    /\ LET attackerId == ws[s].playerId
       IN  sent' = IF /\ currentMatchId # 0
                      /\ attackerId \in playerUserMap
                      /\ victimId \in playerUserMap
                   THEN {Msg("player-damaged", attackerId, victimId, damage, OpenClients(ws))}
                   ELSE {}
    /\ logged' = {}
    /\ UNCHANGED <<extraVars, clientVars, loopVars, lastApplied, now, players, playerUserMap, currentMatchId, nextMatchId,
                   pendingHits, pendingEndMatch, lastAccepted>>

(***************************************************************************)
(* checkInactiveUsers, every 30 s.                                         *)
(***************************************************************************)
Inactive(p) == /\ activeConnections[p].ws # 0
               /\ now - activeConnections[p].lastActivity > INACTIVE_TIMEOUT

checkInactiveUsers ==
    LET stale == {p \in Identities : Inactive(p)}
        staleSockets == {activeConnections[p].ws : p \in stale}
    IN  /\ ws' = [s \in Sockets |-> IF s \in staleSockets THEN CloseSocket(ws[s]) ELSE ws[s]]
        /\ activeConnections' = [p \in Identities |->
                                    IF p \in stale THEN NoConnection ELSE activeConnections[p]]
        /\ players' = [p \in Identities |-> IF p \in stale THEN NoPlayer ELSE players[p]]
        /\ playerUserMap' = playerUserMap \ stale
        /\ sent' = {} /\ logged' = {}
        /\ UNCHANGED <<extraVars, clientVars, loopVars, lastApplied, now, currentMatchId, nextMatchId, pendingHits, pendingEndMatch, received, lastAccepted>>

(***************************************************************************)
(* The takeover (force_disconnect) notice.                                 *)
(***************************************************************************)
\* The tokens a notice can carry: the wsId of any socket of the run, be it
\* connected, closed or not yet opened.
Tokens == {uuidv4(s) : s \in Sockets}

\* A loop that matches on the identity of the connection the token names.
MatchingClients_ByIdentity(wsId) ==
    {s \in Sockets : /\ ws[s].readyState \in {"OPEN", "CLOSING"}
                     /\ \E t \in Sockets : /\ ws[t].wsId = wsId
                                            /\ ws[t].playerId = ws[s].playerId}

\* for (const client of this.wss.clients) if (client.wsId === wsId): the
\* sockets the loop of forceDisconnectByWsId matches.  wss.clients holds the
\* sockets whose 'close' event has not been emitted.
MatchingClients(wsId) ==
    {s \in Sockets : ws[s].readyState \in {"OPEN", "CLOSING"} /\ ws[s].wsId = wsId}

\* WebSocketManager.forceDisconnectByWsId(wsId): the first matching client is
\* closed and the loop returns; without a match nothing is done.
forceDisconnectByWsId(wsId) ==
    LET matching == MatchingClients(wsId) IN
    /\ IF matching = {}
       THEN ws' = ws
       ELSE LET client == CHOOSE s \in matching : \A t \in matching : s <= t
            IN  ws' = [ws EXCEPT ![client] = CloseSocket(ws[client])]
    /\ sent' = {} /\ logged' = {}
    /\ UNCHANGED <<extraVars, clientVars, loopVars, lastApplied, now, players, activeConnections, playerUserMap, currentMatchId,
                   nextMatchId, pendingHits, pendingEndMatch, received, lastAccepted>>

Next ==
    \/ \E d \in {TickMs, INACTIVE_TIMEOUT + 1} : Tick(d)
    \/ \E s \in Sockets, u \in Identities : Connect(s, u)
    \/ \E s \in Sockets, ok \in BOOLEAN : LookupDone(s, ok)
    \/ \E s \in Sockets, ok \in BOOLEAN : StartMatchDone(s, ok)
    \/ \E s \in Sockets, ok \in BOOLEAN : AddPlayerDone(s, ok)
    \/ \E s \in Sockets : CloseEvent(s)
    \/ \E ok \in BOOLEAN : EndMatchDone(ok)
    \/ checkInactiveUsers
    \/ \E wsId \in Tokens : forceDisconnectByWsId(wsId)
    \/ \E s \in Sockets : OtherMessage(s)
    \/ \E s \in Sockets, hasInput \in BOOLEAN, event \in MovementInputs :
          MovementMessage(s, hasInput, event)
    \/ \E s \in Sockets, victimId \in VictimInputs, damage \in Damages :
          HitMessage(s, victimId, damage)
    \/ \E h \in pendingHits, ok \in BOOLEAN : HitResume(h, ok)
    \/ \E s \in Sockets, victimId \in Identities, ok \in BOOLEAN :
          KillMessage(s, victimId, defaultKillDamage, ok)
    \/ \E s \in Sockets, victimId \in Identities :
          DamageMessage(s, victimId, ReportedDamage)

\* The whole server.  Its state space is explored in two parts, each an
\* environment that takes a subset of the steps above: SpecLifecycle and
\* SpecCombat.
Spec == Init /\ [][Next]_vars

(***************************************************************************)
(* The life cycle of connections: admission, close, sweep, takeover notice *)
(* and match start/end, with clients that send no combat message.          *)
(***************************************************************************)
NextLifecycle ==
    \/ \E d \in {TickMs, INACTIVE_TIMEOUT + 1} : Tick(d)
    \/ \E s \in Sockets, u \in Identities : Connect(s, u)
    \/ \E s \in Sockets, ok \in BOOLEAN : LookupDone(s, ok)
    \/ \E s \in Sockets, ok \in BOOLEAN : StartMatchDone(s, ok)
    \/ \E s \in Sockets, ok \in BOOLEAN : AddPlayerDone(s, ok)
    \/ \E s \in Sockets : CloseEvent(s)
    \/ \E ok \in BOOLEAN : EndMatchDone(ok)
    \/ checkInactiveUsers
    \/ \E wsId \in Tokens : forceDisconnectByWsId(wsId)
    \/ \E s \in Sockets : OtherMessage(s)

SpecLifecycle == Init /\ [][NextLifecycle]_vars

(***************************************************************************)
(* The combat handlers among clients that stay connected through their     *)
(* admission, with a database that answers the admission queries, within   *)
(* one cooldown of the server's start.                                     *)
(***************************************************************************)
NextCombat ==
    \/ Tick(TickMs)
    \/ \E s \in Sockets, u \in Identities : Connect(s, u)
    \/ \E s \in Sockets : LookupDone(s, TRUE)
    \/ \E s \in Sockets, ok \in BOOLEAN : StartMatchDone(s, ok)
    \/ \E s \in Sockets : AddPlayerDone(s, TRUE)
    \/ \E s \in Sockets : ws[s].pc = "admitted" /\ CloseEvent(s)
    \/ \E ok \in BOOLEAN : EndMatchDone(ok)
    \/ \E s \in Sockets, hasInput \in BOOLEAN, event \in MovementInputs :
          MovementMessage(s, hasInput, event)
    \/ \E s \in Sockets, victimId \in VictimInputs, damage \in Damages :
          HitMessage(s, victimId, damage)
    \/ \E h \in pendingHits, ok \in BOOLEAN : HitResume(h, ok)
    \/ \E s \in Sockets, victimId \in Identities, ok \in BOOLEAN :
          KillMessage(s, victimId, defaultKillDamage, ok)
    \/ \E s \in Sockets, victimId \in Identities :
          DamageMessage(s, victimId, ReportedDamage)

SpecCombat == Init /\ [][NextCombat]_vars

(***************************************************************************)
(* The server with the game loop (an earlier server/index.js) and the      *)
(* NetworkManager clients that speak its binary protocol.  now is the low  *)
(* 32 bits of Date.now(): Date.now() itself is above 0xFFFFFFFF.           *)
(***************************************************************************)
\* setInterval(..., 1) runs the loop body when a tick interval has passed:
\* now - gameState.lastUpdate >= 1000 / 60.
TickDue == (now - lastUpdate) * tickRate >= 1000

\* The clock of the game-loop server advances by a tick interval, rounded
\* up to a millisecond, at most MaxElapses times.
LoopMaxTime == StartTime + MaxElapses * ((1000 \div tickRate) + 1)

Elapse ==
    /\ running
    /\ now + (1000 \div tickRate) + 1 <= LoopMaxTime
    /\ now' = now + (1000 \div tickRate) + 1
    /\ UNCHANGED <<extraVars, clientVars, indexVars, loopVars>>

\* players.set(playerId, {...}) of the connection handler
NewTickPlayer == [inputState |-> 0, lastInputSequence |-> 0]

\* createStateUpdateBuffer(players) when buffer.writeUInt32BE(Date.now(), 3)
\* does not throw: the timestamp is the low 32 bits of Date.now() and each
\* player state carries the player's id and inputState.
createStateUpdateBuffer(pl) ==
    [timestamp |-> now, players |-> [id \in DOMAIN pl |-> pl[id].inputState]]

\* wss.on('connection'): playerId = Date.now() & 0xFFFF, players.set, the
\* initial snapshot and the registration of the message and close handlers.
\* Where writeUInt32BE throws, the exception leaves the handler uncaught.
connection(c) ==
    /\ running
    /\ clients[c].readyState = "NONE"
    /\ \A d \in Connections : d < c => clients[d].readyState # "NONE"
    /\ LET playerId == now % PlayerIdRange
           joined == [id \in DOMAIN tickPlayers \cup {playerId} |->
                         IF id = playerId THEN NewTickPlayer ELSE tickPlayers[id]]
       IN  /\ tickPlayers' = joined
           /\ IF rangeChecked
              THEN /\ running' = FALSE
                   /\ UNCHANGED <<clients, snapshots>>
              ELSE /\ clients' = [clients EXCEPT ![c] = [readyState |-> "OPEN",
                                                        playerId |-> playerId]]
                   /\ snapshots' = [snapshots EXCEPT
                                      ![c] = Append(@, createStateUpdateBuffer(joined))]
                   /\ UNCHANGED running
    /\ UNCHANGED <<extraVars, clientVars, now, indexVars, rangeChecked, lastUpdate, manager, inputs>>

\* NetworkManager.sendInput(inputState): the sequence number goes into the
\* packet as a Uint16.
sendInput(c, inputState) ==
    /\ running
    /\ clients[c].readyState = "OPEN"
    /\ manager[c].sequence < MaxSequence
    /\ LET sequence == manager[c].sequence + 1 IN
       /\ manager' = [manager EXCEPT
                        ![c].sequence = sequence,
                        ![c].pendingInputs =
                            Append(@, [sequence |-> sequence, inputState |-> inputState])]
       /\ inputs' = [inputs EXCEPT
                       ![c] = Append(@, [sequence |-> sequence % SequenceRange,
                                         inputState |-> inputState,
                                         byteLength |-> INPUT_PACKET_SIZE])]
    /\ UNCHANGED <<extraVars, clientVars, now, indexVars, rangeChecked, running, tickPlayers, lastUpdate,
                   clients, snapshots>>

\* A peer sends the first n bytes of an INPUT packet: the header carries
\* sequence 1 and the INPUT type where the bytes are there.
sendTruncated(c, n) ==
    /\ running
    /\ clients[c].readyState = "OPEN"
    /\ inputs[c] = <<>>
    /\ inputs' = [inputs EXCEPT
                    ![c] = Append(@, [sequence |-> 1, inputState |-> 0, byteLength |-> n])]
    /\ UNCHANGED <<extraVars, clientVars, now, indexVars, rangeChecked, running, tickPlayers, lastUpdate,
                   clients, manager, snapshots>>

\* Buffer.readUInt8/readUInt16BE/readUInt32BE(offset) throw ERR_OUT_OF_RANGE
\* unless the bytes read lie inside the buffer.
InRange(packet, offset, size) == offset + size <= packet.byteLength

\* ws.on('message') of the game-loop server, for an INPUT packet.  A read
\* past the end of the packet throws, and so does player.lastInputSequence
\* when the player was deleted by the close of a connection that was given
\* the same playerId; nothing catches either.
message(c) ==
    /\ running
    /\ clients[c].readyState = "OPEN"
    /\ inputs[c] # <<>>
    /\ LET packet == Head(inputs[c])
           playerId == clients[c].playerId
       IN  /\ inputs' = [inputs EXCEPT ![c] = Tail(@)]
           /\ IF \/ ~InRange(packet, 2, 1)
                 \/ ~InRange(packet, 0, 2)
                 \/ ~InRange(packet, HEADER_SIZE, 4)
                 \/ playerId \notin DOMAIN tickPlayers
              THEN /\ running' = FALSE
                   /\ UNCHANGED tickPlayers
              ELSE /\ tickPlayers' =
                         IF packet.sequence > tickPlayers[playerId].lastInputSequence
                         THEN [tickPlayers EXCEPT
                                 ![playerId] = [inputState |-> packet.inputState,
                                                lastInputSequence |-> packet.sequence]]
                         ELSE tickPlayers
                   /\ UNCHANGED running
    /\ UNCHANGED <<extraVars, clientVars, now, indexVars, rangeChecked, lastUpdate, clients, manager, snapshots>>

\* ws.on('close'): players.delete(playerId); what was queued in either
\* direction is lost.
close(c) ==
    /\ running
    /\ clients[c].readyState = "OPEN"
    /\ clients' = [clients EXCEPT ![c].readyState = "CLOSED"]
    /\ tickPlayers' = [id \in DOMAIN tickPlayers \ {clients[c].playerId} |-> tickPlayers[id]]
    /\ inputs' = [inputs EXCEPT ![c] = <<>>]
    /\ snapshots' = [snapshots EXCEPT ![c] = <<>>]
    /\ UNCHANGED <<extraVars, clientVars, now, indexVars, rangeChecked, running, lastUpdate, manager>>

\* A game loop that leaves out the connections that already have a
\* snapshot queued.
Recipients_IdleOnly == {c \in Connections : clients[c].readyState = "OPEN" /\ snapshots[c] = <<>>}

\* wss.clients.forEach(client => { if (client.readyState === WebSocket.OPEN) ...
Recipients == {c \in Connections : clients[c].readyState = "OPEN"}

\* The body of the game loop when a tick is due: one buffer, sent to every
\* open client; client.send queues it whatever is queued already.
gameLoop ==
    /\ running
    /\ TickDue
    /\ \A c \in Connections : Len(snapshots[c]) < MaxQueue
    /\ lastUpdate' = now
    /\ IF rangeChecked
       THEN /\ running' = FALSE
            /\ UNCHANGED snapshots
       ELSE /\ snapshots' = [c \in Connections |->
                                IF c \in Recipients
                                THEN Append(snapshots[c], createStateUpdateBuffer(tickPlayers))
                                ELSE snapshots[c]]
            /\ UNCHANGED running
    /\ UNCHANGED <<extraVars, clientVars, now, indexVars, rangeChecked, tickPlayers, clients, manager, inputs>>

\* NetworkManager.reconcileStates()
reconcileStates(m) ==
    IF m.interpolationBuffer = <<>>
    THEN m
    ELSE LET unconfirmedInputs ==
                 SelectSeq(m.pendingInputs,
                           LAMBDA input : input.sequence > m.lastProcessedSequence)
             processed ==
                 IF unconfirmedInputs = <<>>
                 THEN m.lastProcessedSequence
                 ELSE unconfirmedInputs[Len(unconfirmedInputs)].sequence
         IN  [m EXCEPT !.lastProcessedSequence = processed,
                       !.pendingInputs =
                           SelectSeq(m.pendingInputs,
                                     LAMBDA input : input.sequence > processed)]

\* NetworkManager.processStateUpdate(buffer), for the STATE_UPDATE packet at
\* the head of the connection's queue.
processStateUpdate(c) ==
    /\ running
    /\ clients[c].readyState = "OPEN"
    /\ snapshots[c] # <<>>
    /\ LET timestamp == Head(snapshots[c]).timestamp
           pushed == Append(manager[c].interpolationBuffer, timestamp)
           buffer == IF Len(pushed) > BUFFER_SIZE THEN Tail(pushed) ELSE pushed
       IN  manager' = [manager EXCEPT
                         ![c] = reconcileStates([manager[c] EXCEPT
                                                   !.interpolationBuffer = buffer,
                                                   !.lastServerUpdate = timestamp])]
    /\ snapshots' = [snapshots EXCEPT ![c] = Tail(@)]
    /\ UNCHANGED <<extraVars, clientVars, now, indexVars, rangeChecked, running, tickPlayers, lastUpdate,
                   clients, inputs>>

NextTickLoop ==
    \/ Elapse
    \/ \E c \in Connections : connection(c)
    \/ \E c \in Connections, inputState \in InputStates : sendInput(c, inputState)
    \/ \E c \in Connections, n \in TruncatedLengths : sendTruncated(c, n)
    \/ \E c \in Connections : message(c)
    \/ \E c \in Connections : close(c)
    \/ gameLoop
    \/ \E c \in Connections : processStateUpdate(c)

\* Both builds of the game-loop server: the one whose writeUInt32BE throws
\* on Date.now() and the one whose writeUInt32BE keeps the low 32 bits.
InitTickLoop ==
    /\ now = StartTime
    /\ InitIndex
    /\ InitLoop
    /\ InitClient
    /\ InitExtra
    /\ rangeChecked \in BOOLEAN

SpecTickLoop == InitTickLoop /\ [][NextTickLoop]_vars

(***************************************************************************)
(* The snapshot codec and the client: createStateUpdateBuffer of the       *)
(* server, processStateUpdate and getInterpolatedState of NetworkManager,  *)
(* processBinaryBuffer of SocketManager.  A Map is the sequence of its     *)
(* entries in insertion order, a coordinate an integer.                    *)
(***************************************************************************)
\* An entity of the server's players Map; inputState is the set of the
\* flags that are true in the server's inputState object.
Entity(id, x, flags) ==
    [id |-> id, position |-> <<x, 0, 0>>, rotation |-> <<0, 0, 0, 1>>,
     velocity |-> <<0, 0, 0>>, inputState |-> flags]

\* The entity sets the server encodes.
EntitySets ==
    { <<Entity(1, 0, {})>>,
      <<Entity(1, 10, {"forward", "up"})>>,
      <<Entity(2, 0, {}), Entity(1, 10, {})>>,
      <<Entity(2, FloatExact + 1, {})>> }

\* buffer.writeFloatBE(v) followed by getFloat32: v rounded to the nearest
\* float32, ties to even; for 0 <= v < 2^25.
Float32(v) ==
    IF v <= FloatExact THEN v
    ELSE IF v % 2 = 0 THEN v
    ELSE IF (v + 1) % 4 = 0 THEN v + 1 ELSE v - 1

FlagBit(f) ==
    CASE f = "forward" -> 1
      [] f = "backward" -> 2
      [] f = "left" -> 4
      [] f = "right" -> 8
      [] f = "up" -> 16
      [] f = "down" -> 32

RECURSIVE encodeInputState(_)
encodeInputState(inputState) ==
    IF inputState = {} THEN 0
    ELSE LET f == CHOOSE g \in inputState : TRUE
         IN  FlagBit(f) + encodeInputState(inputState \ {f})

\* The 46 bytes of one player: id (the ids of the model fit a UInt16), ten
\* floats and the UInt32 input state.
PlayerRecord(player, inputState) ==
    [id |-> player.id,
     position |-> [k \in 1..3 |-> Float32(player.position[k])],
     rotation |-> [k \in 1..4 |-> Float32(player.rotation[k])],
     velocity |-> [k \in 1..3 |-> Float32(player.velocity[k])],
     inputState |-> inputState]

\* BinaryProtocol.createStateUpdateBuffer(players); entities is history:
\* the Map that was encoded.
createStateUpdateBuffer_BinaryProtocol(pl) ==
    [byteLength |-> HEADER_SIZE + Len(pl) * PLAYER_STATE_SIZE,
     timestamp |-> now,
     records |-> [i \in 1..Len(pl) |->
                     PlayerRecord(pl[i], encodeInputState(pl[i].inputState))],
     entities |-> pl]

\* createStateUpdateBuffer(players) of index.js: player.inputState is an
\* object, buffer.writeUInt32BE(object) writes +object = NaN as 0.
createStateUpdateBuffer_index(pl) ==
    [byteLength |-> HEADER_SIZE + Len(pl) * PLAYER_STATE_SIZE,
     timestamp |-> now,
     records |-> [i \in 1..Len(pl) |-> PlayerRecord(pl[i], 0)],
     entities |-> pl]

\* ws.send(createStateUpdateBuffer(players)) of index.js
sendStateUpdate(pl) ==
    /\ wire = <<>>
    /\ Len(arrived) < MaxArrivals
    /\ wire' = <<createStateUpdateBuffer_index(pl)>>
    /\ UNCHANGED <<extraVars, now, indexVars, loopVars, interpolationBuffer, gameState, thrown,
                   updated, rendered, arrived>>

\* A server that encodes with BinaryProtocol.createStateUpdateBuffer.
sendProtocolStateUpdate(pl) ==
    /\ wire = <<>>
    /\ Len(arrived) < MaxArrivals
    /\ wire' = <<createStateUpdateBuffer_BinaryProtocol(pl)>>
    /\ UNCHANGED <<extraVars, now, indexVars, loopVars, interpolationBuffer, gameState, thrown,
                   updated, rendered, arrived>>

\* The client is handed the first n bytes of the buffer only.
truncate(n) ==
    /\ wire # <<>>
    /\ n < wire[1].byteLength
    /\ wire[1].byteLength = HEADER_SIZE + Len(wire[1].records) * PLAYER_STATE_SIZE
    /\ wire' = <<[wire[1] EXCEPT !.byteLength = n]>>
    /\ UNCHANGED <<extraVars, now, indexVars, loopVars, interpolationBuffer, gameState, thrown,
                   updated, rendered, arrived>>

\* The clock of the client and of the server that sends to it.
Advance ==
    /\ now + RenderStep <= MaxRenderTime
    /\ now' = now + RenderStep
    /\ UNCHANGED <<extraVars, indexVars, loopVars, clientVars>>

\* DataView.getUint8/getUint16/getUint32/getFloat32(offset) throw a
\* RangeError unless the bytes read lie inside the buffer.
Readable(buffer, offset, size) == offset + size <= buffer.byteLength

\* The number of times the loop of processStateUpdate runs:
\* for (i = 0; i < (byteLength - 8) / 46; i++), a quotient of reals.
playerCount(buffer) ==
    IF buffer.byteLength <= HEADER_SIZE THEN 0
    ELSE (buffer.byteLength - HEADER_SIZE + PLAYER_STATE_SIZE - 1) \div PLAYER_STATE_SIZE

\* newState of processStateUpdate once the loop has run n times.
newState(buffer, n) ==
    [i \in 1..n |-> [id |-> buffer.records[i].id,
                     position |-> buffer.records[i].position,
                     rotation |-> buffer.records[i].rotation,
                     velocity |-> buffer.records[i].velocity,
                     inputState |-> buffer.records[i].inputState,
                     lastInputSequence |-> 0]]

\* A buffer that is never shortened.
keepBufferLimited_NoShift(pushed) == pushed

\* if (this.interpolationBuffer.length > this.BUFFER_SIZE)
\*     this.interpolationBuffer.shift();
keepBufferLimited(pushed) == IF Len(pushed) > BUFFER_SIZE THEN Tail(pushed) ELSE pushed

\* ws.onmessage of NetworkManager for a STATE_UPDATE buffer, with the
\* processStateUpdate it calls.  An exception leaves the handler before
\* anything is stored.  This client has sent no input: reconcileStates
\* finds gameState.pendingInputs empty.
onmessage ==
    /\ wire # <<>>
    /\ wire' = <<>>
    /\ LET buffer == wire[1]
           n == playerCount(buffer)
       IN  IF \/ ~Readable(buffer, 2, 1)
              \/ ~Readable(buffer, 3, 4)
              \/ (n > 0 /\ ~Readable(buffer, HEADER_SIZE, n * PLAYER_STATE_SIZE))
           THEN /\ thrown' = TRUE
                /\ UNCHANGED <<interpolationBuffer, gameState, arrived>>
           ELSE LET snapshot == [timestamp |-> buffer.timestamp,
                                 state |-> newState(buffer, n)]
                    pushed == Append(interpolationBuffer, snapshot)
                    kept == keepBufferLimited(pushed)
                    m == reconcileStates([NewManager EXCEPT
                                            !.interpolationBuffer = kept,
                                            !.pendingInputs = gameState.pendingInputs])
                IN  /\ thrown' = FALSE
                    /\ interpolationBuffer' = kept
                    /\ gameState' = [gameState EXCEPT
                                       !.lastServerUpdate = buffer.timestamp,
                                       !.pendingInputs = m.pendingInputs]
                    /\ arrived' = Append(arrived, snapshot)
    /\ UNCHANGED <<extraVars, now, indexVars, loopVars, updated, rendered>>

\* SocketManager.handleBinaryMessage(data) of a client that has no playerId
\* of its own yet: processBinaryBuffer returns on a buffer shorter than the
\* header, processStateUpdate calls onUpdate for every whole record.
handleBinaryMessage ==
    /\ wire # <<>>
    /\ wire' = <<>>
    /\ LET buffer == wire[1]
           whole == IF buffer.byteLength < HEADER_SIZE THEN 0
                    ELSE (buffer.byteLength - HEADER_SIZE) \div PLAYER_STATE_SIZE
       IN  updated' = [i \in 1..whole |-> [id |-> buffer.records[i].id,
                                          position |-> buffer.records[i].position,
                                          rotation |-> buffer.records[i].rotation]]
    /\ thrown' = FALSE
    /\ UNCHANGED <<extraVars, now, indexVars, loopVars, interpolationBuffer, gameState, rendered,
                   arrived>>

\* The index of newerState in getInterpolatedState: the first snapshot
\* after the oldest whose timestamp is above the one asked for, the second
\* snapshot where there is none.
newerIndex(buf, timestamp) ==
    LET later == {i \in 2..Len(buf) : buf[i].timestamp > timestamp}
    IN  IF later = {} THEN 2 ELSE CHOOSE i \in later : \A j \in later : i <= j

\* old + (new - old) * alpha for alpha = (timestamp - t0) / (t1 - t0), as
\* the fraction num / den; den = 0 stands for the NaN or Infinity that the
\* division by zero yields.
Lerp(old, new, timestamp, t0, t1) ==
    [num |-> old * (t1 - t0) + (new - old) * (timestamp - t0), den |-> t1 - t0]

\* The Map getInterpolatedState(timestamp) returns.
InterpolatedState(buf, timestamp) ==
    IF Len(buf) < 2
    THEN gameState.players
    ELSE LET newerState == buf[newerIndex(buf, timestamp)]
             olderState == buf[newerIndex(buf, timestamp) - 1]
             has(id) == \E j \in 1..Len(newerState.state) : newerState.state[j].id = id
             get(id) == newerState.state[CHOOSE j \in 1..Len(newerState.state) :
                                            newerState.state[j].id = id]
             both == SelectSeq(olderState.state, LAMBDA oldPlayer : has(oldPlayer.id))
             mix(old, new) == Lerp(old, new, timestamp,
                                   olderState.timestamp, newerState.timestamp)
         IN  [k \in 1..Len(both) |->
                [id |-> both[k].id,
                 position |-> [c \in 1..3 |-> mix(both[k].position[c],
                                                  get(both[k].id).position[c])],
                 rotation |-> [c \in 1..4 |-> mix(both[k].rotation[c],
                                                  get(both[k].id).rotation[c])],
                 velocity |-> [c \in 1..3 |-> mix(both[k].velocity[c],
                                                  get(both[k].id).velocity[c])],
                 inputState |-> get(both[k].id).inputState,
                 lastInputSequence |-> get(both[k].id).lastInputSequence]]

getInterpolatedState(timestamp) ==
    /\ rendered' = [timestamp |-> timestamp,
                    state |-> InterpolatedState(interpolationBuffer, timestamp)]
    /\ thrown' = FALSE
    /\ UNCHANGED <<extraVars, now, indexVars, loopVars, wire, interpolationBuffer, gameState,
                   updated, arrived>>

\* Encoding, transport and decoding of snapshots, at one instant.
NextCodec ==
    \/ \E pl \in EntitySets : sendStateUpdate(pl)
    \/ \E pl \in EntitySets : sendProtocolStateUpdate(pl)
    \/ \E n \in SnapshotCuts : truncate(n)
    \/ onmessage
    \/ handleBinaryMessage

\* The entity sets of the rendering runs.
RenderSets == {pl \in EntitySets : \A i \in 1..Len(pl) : pl[i].position[1] <= 10}

\* A NetworkManager that receives up to BUFFER_SIZE whole snapshots over
\* time and is asked for interpolated states.
NextRender ==
    \/ Advance
    \/ \E pl \in RenderSets : Len(arrived) < BUFFER_SIZE /\ sendStateUpdate(pl)
    \/ onmessage
    \/ \E timestamp \in QueryTimes : getInterpolatedState(timestamp)

\* The client and the server that sends to it start their clock at 0.
InitClientRun ==
    /\ now = 0
    /\ InitIndex
    /\ InitLoop
    /\ InitClient
    /\ InitExtra
    /\ rangeChecked = TRUE

SpecCodec == InitClientRun /\ [][NextCodec]_vars

SpecRender == InitClientRun /\ [][NextRender]_vars

(***************************************************************************)
(* Connection arbitration.                                                 *)
(***************************************************************************)
\* C1: at every instant each identity has at most one active connection:
\* no two open, admitted sockets serve the same playerId.
C1_AtMostOneActiveConnection ==
    \A s, t \in Sockets :
        (/\ s # t
         /\ ws[s].pc = "admitted" /\ ws[s].readyState = "OPEN"
         /\ ws[t].pc = "admitted" /\ ws[t].readyState = "OPEN")
        => ws[s].playerId # ws[t].playerId

\* C2: when the admission of a connection n that is still open completes,
\* without a database failure, for an identity that has an active connection
\* o, then n is the active connection afterwards and o is no longer open.
C2_NewerConnectionWins ==
    [][\A n, o \in Sockets :
          (/\ n # o
           /\ ws[o].pc = "admitted" /\ ws[o].readyState = "OPEN"
           /\ ws[n].pc \in {"lookup", "start", "add"} /\ ws[n].readyState = "OPEN"
           /\ ws[n].username = ws[o].playerId
           /\ ws'[n].pc \in {"admitted", "ended"}
           /\ ~LookupDone(n, FALSE) /\ ~AddPlayerDone(n, FALSE))
          => /\ ws'[n].pc = "admitted" /\ ws'[n].readyState = "OPEN"
             /\ activeConnections'[ws[o].playerId].ws = n
             /\ ws'[o].readyState # "OPEN"]_vars

\* C3: once two attempts for one identity have both completed their
\* admission, a socket of the two that is open is the only open one, and the
\* registry entry of the identity refers to it.
C3_InterleavedAttemptsLeaveOneActive ==
    \A s, t \in Sockets :
        (/\ s # t
         /\ ws[s].pc = "admitted" /\ ws[t].pc = "admitted"
         /\ ws[s].playerId = ws[t].playerId
         /\ ws[s].readyState = "OPEN")
        => /\ ws[t].readyState # "OPEN"
           /\ activeConnections[ws[s].playerId].ws = s

\* C4: a takeover notice closes only the connection whose wsId equals the
\* token it carries, whenever it is handled: every socket a
\* forceDisconnectByWsId step changes carries that token, and every other
\* socket, a newer connection of the same identity included, is left as it
\* was.
C4_TakeoverClosesOnlyStaleToken ==
    [][\A wsId \in Tokens :
          forceDisconnectByWsId(wsId)
          => \A s \in Sockets :
                /\ ws'[s] # ws[s] => ws[s].wsId = wsId
                /\ ws[s].wsId # wsId => ws'[s].readyState = ws[s].readyState]_vars

\* C4 witness: before any sweep can have run, an older connection has been
\* closed by a notice while a newer open connection of the same identity is
\* the registered one.
C4_Witness ==
    \E o, n \in Sockets :
        /\ o < n
        /\ now = StartTime
        /\ ws[o].pc = "admitted" /\ ws[n].pc = "admitted"
        /\ ws[o].playerId = ws[n].playerId
        /\ ws[o].readyState = "CLOSING"
        /\ ws[n].readyState = "OPEN"
        /\ activeConnections[ws[n].playerId].ws = n

(***************************************************************************)
(* Combat.                                                                 *)
(***************************************************************************)
\* C5: at every instant the health of every player is within [0, maxHealth],
\* whatever damage values the clients submit.
C5_HealthWithinBounds ==
    \A p \in Identities :
        HasPlayer(p) => players[p].health >= 0 /\ players[p].health <= maxHealth

\* C6: no two accepted hits of one attacker are less than shotCooldown apart.
C6_CooldownBetweenAcceptedHits ==
    [][\A a \in Identities :
          (lastAccepted[a] # 0 /\ lastAccepted'[a] # lastAccepted[a])
          => lastAccepted'[a] - lastAccepted[a] >= shotCooldown]_vars

\* C7: when the processing of a hit that brought its victim's health to 0
\* ends, the victim has health maxHealth and stands at the respawn point.
C7_LethalHitEndsRespawned ==
    [][\A h \in pendingHits :
          (h \notin pendingHits' /\ players'[h.victimId].gen = h.gen)
          => /\ players'[h.victimId].health = maxHealth
             /\ players'[h.victimId].position = respawnPosition
             /\ players'[h.victimId].rotation = identityRotation]_vars

\* C8: a death event is emitted exactly when a victim's health goes from a
\* positive value to 0 or below: the processing of every hit that made such
\* a transition ends with a player-death broadcast for its victim, and every
\* player-death broadcast ends the processing of a hit that made one.
C8_DeathEventExactlyOnTransition ==
    [][/\ \A h \in pendingHits :
             (h \notin pendingHits' /\ h.from > 0)
             => \E m \in sent' : m.type = "player-death" /\ m.v = h.victimId
       /\ \A m \in sent' :
             m.type = "player-death"
             => \/ \E h \in pendingHits :
                      h \notin pendingHits' /\ h.victimId = m.v /\ h.from > 0
                \/ /\ pendingHits' = pendingHits
                   /\ players[m.v].health > 0]_vars

\* C9: the processing of a hit is atomic: while it is suspended between its
\* health decrement and its respawn, no step changes the player record of
\* its attacker or of its victim.
C9_HitProcessingAtomic ==
    [][\A h \in pendingHits :
          h \in pendingHits'
          => /\ players'[h.attackerId] = players[h.attackerId]
             /\ players'[h.victimId] = players[h.victimId]]_vars

\* C10: the health of a player that is in the game changes only in a step of
\* the hit operation (handlePlayerHit called for a hit message, or its
\* resumption).
C10_OnlyHitChangesHealth ==
    [][\A p \in Identities :
          (/\ HasPlayer(p)
           /\ players'[p].gen # 0
           /\ players'[p].health # players[p].health)
          => \/ \E s \in Sockets, victimId \in VictimInputs, damage \in Damages :
                   HitMessage(s, victimId, damage)
             \/ \E h \in pendingHits, ok \in BOOLEAN : HitResume(h, ok)]_vars

\* C11: a hit submitted during the attacker's cooldown, or naming a victim
\* that is not in the game, changes no player record (health, position,
\* rotation, lastShotTime), suspends no handler and broadcasts nothing.
C11_RejectedHitChangesNothing ==
    [][\/ received' = received
       \/ players' = players /\ pendingHits' = pendingHits /\ sent' = {}
       \/ \A s \in {x \in Sockets : ws[x].pc = "admitted"} :
             \A victimId \in VictimInputs \ {0}, damage \in Damages :
                ~(/\ \/ ~HasPlayer(victimId)
                     \/ /\ HasPlayer(ws[s].playerId)
                        /\ now - players[ws[s].playerId].lastShotTime < shotCooldown
                  /\ HitMessage(s, victimId, damage))]_vars

\* C11 witness: a hit has just been rejected for the cooldown, between two
\* players that are both in the game.
C11_Witness ==
    /\ sent = {}
    /\ \E a, v \in Identities :
          /\ logged = {[line |-> "Shot rejected", attacker |-> a, victim |-> 0]}
          /\ a # v /\ HasPlayer(a) /\ HasPlayer(v)
          /\ now - players[a].lastShotTime < shotCooldown

\* C12: a hit message whose victimId names the sender, as a number or as a
\* string, changes no player record, suspends no handler and broadcasts
\* nothing.
C12_SelfHitRejected ==
    [][\/ received' = received
       \/ players' = players /\ pendingHits' = pendingHits /\ sent' = {}
       \/ \A s \in {x \in Sockets : ws[x].pc = "admitted"} :
             \A victimId \in {ws[s].playerId, StringId(ws[s].playerId)}, damage \in Damages :
                ~HitMessage(s, victimId, damage)]_vars

\* C12 witness: a player that is in a match and out of its cooldown has just
\* sent a hit naming itself by the string form of its id, which got past the
\* dispatch and was turned down by handlePlayerHit.
C12_Witness ==
    \E a \in Identities :
        /\ HasPlayer(a)
        /\ now - players[a].lastShotTime >= shotCooldown
        /\ logged = {[line |-> "Player not found", attacker |-> a, victim |-> StringId(a)]}

\* C13: a kill message that names a victim a hit would be accepted for acts
\* on the player records as a hit of defaultKillDamage does: the attacker's
\* lastShotTime becomes the current time and the victim's health is brought
\* down (to 0 from at most defaultKillDamage), then respawned at once or
\* when the persistence call returns.
C13_KillActsAsFullDamageHit ==
    [][\/ received' = received
       \/ \A s \in {x \in Sockets : ws[x].pc = "admitted"} :
             \A victimId \in Identities, ok \in BOOLEAN :
                (/\ Dispatched(victimId, ws[s].playerId)
                 /\ HitAccepted(ws[s].playerId, victimId)
                 /\ KillMessage(s, victimId, defaultKillDamage, ok))
                => LET health == HealthAfterHit(players[victimId].health, defaultKillDamage)
                       hit == [players EXCEPT ![ws[s].playerId].lastShotTime = now,
                                              ![victimId].health = health]
                   IN  players' \in {hit, Respawn(hit, victimId, players[victimId].gen)}]_vars

\* C14: when the persistence call of a lethal hit fails, the failure is
\* logged and the hit still ends with its victim respawned and with a
\* player-death broadcast for it.
C14_PersistenceFailureKeepsOutcome ==
    [][\A h \in pendingHits :
          (/\ h \notin pendingHits'
           /\ [line |-> "Error handling player hit", attacker |-> 0, victim |-> 0] \in logged')
          => /\ players'[h.victimId].gen = h.gen
                => /\ players'[h.victimId].health = maxHealth
                   /\ players'[h.victimId].position = respawnPosition
             /\ \E m \in sent' : m.type = "player-death" /\ m.v = h.victimId]_vars

(***************************************************************************)
(* Input ordering and snapshots.                                           *)
(***************************************************************************)
\* C15: a movement message whose sequence number is not strictly greater
\* than the one last applied for its connection changes no player record.
C15_StaleSampleNotApplied ==
    [][\/ received' = received
       \/ players' = players
       \/ \A s \in {x \in Sockets : ws[x].pc = "admitted"} :
             \A hasInput \in BOOLEAN, event \in MovementInputs :
                ~(/\ event.sequence <= lastApplied[s]
                  /\ MovementMessage(s, hasInput, event))]_vars

C20_RepeatedNoticeChangesNothing ==
    [][\A wsId \in Tokens :
          (/\ \A s \in Sockets : ws[s].wsId = wsId => ws[s].readyState # "OPEN"
           /\ forceDisconnectByWsId(wsId))
          => /\ ws' = ws
             /\ activeConnections' = activeConnections
             /\ players' = players
             /\ playerUserMap' = playerUserMap]_vars

\* C20 witness: a connection that a notice has closed is still in its
\* closing handshake, so that the notice's token still matches a client,
\* while two later connections are open and registered.
C20_Witness ==
    \E o \in Sockets :
        /\ now = StartTime
        /\ ws[o].pc = "admitted"
        /\ ws[o].readyState = "CLOSING"
        /\ ws[o].wsId \in Tokens
        /\ \A n \in Sockets \ {o} :
              /\ ws[n].pc = "admitted"
              /\ ws[n].readyState = "OPEN"
              /\ activeConnections[ws[n].playerId].ws = n

(***************************************************************************)
(* Liveness of connections.                                                *)
(***************************************************************************)
\* C21: every message that arrives on an admitted connection, whatever its
\* type, sets the lastActivity of that connection's registry entry to the
\* time of receipt.
C21_MessageRefreshesLiveness ==
    [][\/ received' = received
       \/ \A s \in {x \in Sockets : ws[x].pc = "admitted"} :
             OtherMessage(s)
             => /\ activeConnections'[ws[s].playerId].ws # 0
                /\ activeConnections'[ws[s].playerId].lastActivity = now]_vars

\* C22: a run of the sweep leaves open no admitted connection that has been
\* silent for more than INACTIVE_TIMEOUT, and leaves no registry entry that
\* names such a connection.
C22_SweepClosesSilentConnections ==
    [][checkInactiveUsers
       => \A s \in Sockets :
             (/\ ws[s].pc = "admitted"
              /\ ws[s].readyState = "OPEN"
              /\ now - ws[s].heard > INACTIVE_TIMEOUT)
             => /\ ws'[s].readyState # "OPEN"
                /\ activeConnections'[ws[s].playerId].ws # s]_vars

\* C23: when no takeover notice reaches a connection that a later connection
\* of the same identity has superseded in the registry, the sweep that finds
\* the identity's entry stale closes the superseded connection.
C23_SweepClosesSupersededConnection ==
    [][checkInactiveUsers
       => \A s \in Sockets :
             (/\ ws[s].pc = "admitted"
              /\ ws[s].readyState = "OPEN"
              /\ activeConnections[ws[s].playerId].ws \notin {0, s}
              /\ Inactive(ws[s].playerId))
             => ws'[s].readyState # "OPEN"]_vars

Truncated(buffer) ==
    \/ buffer.byteLength < HEADER_SIZE
    \/ (buffer.byteLength - HEADER_SIZE) % PLAYER_STATE_SIZE # 0

\* C25: a client handler that is given a truncated STATE_UPDATE buffer
\* does not throw and buffers no snapshot from it.
C25_TruncatedBufferRejected ==
    [][(/\ wire # <<>>
        /\ Truncated(wire[1])
        /\ onmessage \/ handleBinaryMessage)
       => /\ ~thrown'
          /\ interpolationBuffer' = interpolationBuffer
          /\ arrived' = arrived]_vars

\* The entities whose coordinates are float32 values.
ValidEntities(pl) ==
    \A i \in 1..Len(pl) :
       /\ \A k \in 1..3 : Float32(pl[i].position[k]) = pl[i].position[k]
       /\ \A k \in 1..4 : Float32(pl[i].rotation[k]) = pl[i].rotation[k]
       /\ \A k \in 1..3 : Float32(pl[i].velocity[k]) = pl[i].velocity[k]

\* C26: the snapshot the client decodes from the whole encoding of a valid
\* entity set has the entities of that set, in its order, with the same
\* id, position, rotation and velocity and with the bitmask of the entity's
\* input flags.
C26_DecodeOfEncodeIsIdentity ==
    [][(/\ wire # <<>>
        /\ ~Truncated(wire[1])
        /\ ValidEntities(wire[1].entities)
        /\ onmessage)
       => LET pl == wire[1].entities
              decoded == interpolationBuffer'[Len(interpolationBuffer')].state
          IN  /\ Len(decoded) = Len(pl)
              /\ \A i \in 1..Len(pl) :
                    /\ decoded[i].id = pl[i].id
                    /\ decoded[i].position = pl[i].position
                    /\ decoded[i].rotation = pl[i].rotation
                    /\ decoded[i].velocity = pl[i].velocity
                    /\ decoded[i].inputState = encodeInputState(pl[i].inputState)]_vars

(***************************************************************************)
(* Combat broadcasts.                                                      *)
(***************************************************************************)
\* C27: a hit of player 1 on player 2 that takes the health of player 2
\* from 100 to 0 is broadcast as a player-hit with health 0 to every open
\* connection, and when its handler ends a player-death for player 2 has
\* been broadcast to every open connection.
C27_LethalHitBroadcastToAll ==
    [][/\ \A h \in pendingHits' \ pendingHits :
             (h.attackerId = 1 /\ h.victimId = 2 /\ h.from = maxHealth)
             => \E m \in sent' : /\ m.type = "player-hit" /\ m.v = 2 /\ m.h = 0
                                 /\ m.to = OpenClients(ws)
       /\ \A h \in pendingHits \ pendingHits' :
             (h.attackerId = 1 /\ h.victimId = 2 /\ h.from = maxHealth)
             => \E m \in sent' : /\ m.type = "player-death" /\ m.v = 2
                                 /\ m.to = OpenClients(ws)]_vars

(***************************************************************************)
(* Interpolation.                                                          *)
(***************************************************************************)
\* The buffered snapshots have strictly increasing timestamps.
StrictlyIncreasing(buf) ==
    \A i \in 1..(Len(buf) - 1) : buf[i].timestamp < buf[i + 1].timestamp

\* C28: when the buffered snapshots have strictly increasing timestamps
\* and two adjacent ones have t0 <= timestamp <= t1,
\* getInterpolatedState(timestamp) interpolates between two adjacent
\* snapshots that bracket timestamp, with a factor between 0 and 1.
C28_InterpolatesBetweenBracketingSnapshots ==
    [][\A timestamp \in QueryTimes :
          (/\ Len(interpolationBuffer) >= 2
           /\ StrictlyIncreasing(interpolationBuffer)
           /\ \E i \in 1..(Len(interpolationBuffer) - 1) :
                 /\ interpolationBuffer[i].timestamp <= timestamp
                 /\ timestamp <= interpolationBuffer[i + 1].timestamp
           /\ getInterpolatedState(timestamp))
          => LET n == newerIndex(interpolationBuffer, timestamp)
                 t0 == interpolationBuffer[n - 1].timestamp
                 t1 == interpolationBuffer[n].timestamp
             IN  /\ t0 <= timestamp /\ timestamp <= t1
                 /\ 0 <= timestamp - t0 /\ timestamp - t0 <= t1 - t0 /\ 0 < t1 - t0]_vars

\* C29: with one snapshot buffered, getInterpolatedState returns the
\* entity states of that snapshot.
C29_SingleSnapshotRenderedAsIs ==
    [][\A timestamp \in QueryTimes :
          (Len(interpolationBuffer) = 1 /\ getInterpolatedState(timestamp))
          => rendered'.state = interpolationBuffer[1].state]_vars

\* The last n elements of a sequence.
LastN(seq, n) == SubSeq(seq, Len(seq) - n + 1, Len(seq))

\* C30: the interpolation buffer holds at most BUFFER_SIZE snapshots: the
\* most recently buffered ones, in the order of their arrival.
C30_BufferHoldsLatestSnapshots ==
    /\ Len(interpolationBuffer) <= BUFFER_SIZE
    /\ interpolationBuffer =
          LastN(arrived, IF Len(arrived) < BUFFER_SIZE THEN Len(arrived) ELSE BUFFER_SIZE)

\* More snapshots have arrived than the buffer holds.
C30_Witness ==
    /\ Len(arrived) > BUFFER_SIZE
    /\ Len(interpolationBuffer) = BUFFER_SIZE

(***************************************************************************)
(* StateSync of the client: movement events.                               *)
(***************************************************************************)
FrameSteps == {movementEventInterval \div 2, (movementEventInterval \div 2) + FrameMs}

\* performance.now() between two frames.
Frame(d) ==
    /\ now + d <= MaxFrameTime
    /\ now' = now + d
    /\ UNCHANGED <<indexVars, loopVars, clientVars, extraVars>>

\* StateSync.checkInputChange as StateSync.update calls it, with the flags
\* that are true in inputState.
checkInputChange(inputState) ==
    LET timePassed == now - lastMovementTime > movementEventInterval
    IN  /\ IF timePassed
           THEN /\ lastInputState' = inputState
                /\ lastMovementTime' = now
           ELSE UNCHANGED <<lastInputState, lastMovementTime>>
        /\ synced' = [at |-> now, inputState |-> inputState, event |-> timePassed]
        /\ UNCHANGED <<now, indexVars, loopVars, clientVars, socketVars, workerVars>>

NextSync ==
    \/ \E d \in FrameSteps : Frame(d)
    \/ \E inputState \in SUBSET Keys : checkInputChange(inputState)

InitSyncRun ==
    /\ now = 0
    /\ InitIndex
    /\ InitLoop
    /\ InitClient
    /\ InitExtra
    /\ rangeChecked = TRUE

SpecSync == InitSyncRun /\ [][NextSync]_vars

\* C31: an update whose inputState differs from the one last recorded
\* passes a movement event to onMovementEvent, and so does an update that
\* comes more than movementEventInterval after the last event.
C31_MovementEventOnChangeOrTimeout ==
    [][\A inputState \in SUBSET Keys :
          (/\ checkInputChange(inputState)
           /\ \/ inputState # lastInputState
              \/ now - lastMovementTime > movementEventInterval)
          => synced'.event]_vars

(***************************************************************************)
(* Departure of remote entities.                                           *)
(***************************************************************************)
\* The rendering client whose clock keeps running and whose renderer keeps
\* asking for the interpolated state.
SpecRenderFair ==
    /\ SpecRender
    /\ WF_vars(Advance)
    /\ WF_vars(onmessage)
    /\ \A timestamp \in QueryTimes : WF_vars(getInterpolatedState(timestamp))

\* C32: once snapshots have stopped arriving, the interpolation query
\* sooner or later returns no entity any more, and never one again.
C32_SilentEntityDeparts ==
    <>[](rendered.state = <<>>)

(***************************************************************************)
(* The close of a superseded socket.                                       *)
(***************************************************************************)
\* C33: the close of an admitted socket whose playerId is registered to
\* another socket leaves the player record, the registry entry and the
\* user mapping of that playerId as they are.
C33_CloseOfOldSocketKeepsNewState ==
    [][\A s \in Sockets :
          (/\ ws[s].pc = "admitted"
           /\ ws[s].readyState \in {"OPEN", "CLOSING"}
           /\ activeConnections[ws[s].playerId].ws \notin {0, s}
           /\ CloseEvent(s))
          => /\ players'[ws[s].playerId] = players[ws[s].playerId]
             /\ activeConnections'[ws[s].playerId] = activeConnections[ws[s].playerId]
             /\ ws[s].playerId \in playerUserMap => ws[s].playerId \in playerUserMap']_vars

(***************************************************************************)
(* Matches.                                                                *)
(***************************************************************************)
\* C34: a match is created only while no match is current, so that
\* connections admitted together while no match is active get one match.
C34_OneMatchForConcurrentAdmissions ==
    [][nextMatchId' > nextMatchId => currentMatchId = 0]_vars

\* C35: while a player is admitted a match is current: no step clears the
\* current match and leaves an admitted player behind, also when the player
\* was admitted while endMatch() of the previous match was suspended.
C35_MatchActiveWhilePlayersAdmitted ==
    [][(currentMatchId # 0 /\ currentMatchId' = 0) => PlayerCount(players') = 0]_vars

(***************************************************************************)
(* SocketManager of the client: connect, keep-alive, reconnect, disconnect.*)
(***************************************************************************)
\* The messages a WebSocket delivers: 'pong', the welcome message and a
\* STATE_UPDATE buffer with the ids of its records.
Pong == [type |-> "pong", playerId |-> 0, ids |-> {}]
Welcome(p) == [type |-> "welcome", playerId |-> p, ids |-> {}]
StateUpdate(ids) == [type |-> "state", playerId |-> 0, ids |-> ids]

\* connect(): new WebSocket(wsUrl) becomes this.socket; bindEvents().
connect(w) ==
    LET free == {k \in ClientSockets : w[k].readyState = "NONE"}
    IN  /\ free # {}
        /\ LET n == CHOOSE k \in free : \A j \in free : k <= j
           IN  /\ webSockets' = [w EXCEPT ![n] = [readyState |-> "CONNECTING", code |-> 0,
                                                   admitted |-> FALSE]]
               /\ socket' = n

\* WebSocket.close(code) (code 1005: close() without a code): an open socket
\* starts the closing handshake; a connecting socket fails its connection,
\* and its close event will carry 1006.
WebSocket_close(w, k, code) ==
    IF w[k].readyState = "OPEN"
    THEN [w EXCEPT ![k].readyState = "CLOSING", ![k].code = code]
    ELSE IF w[k].readyState = "CONNECTING"
    THEN [w EXCEPT ![k].readyState = "CLOSING", ![k].code = 1006]
    ELSE w

\* event.code of the close event of a socket: the code of the closing
\* handshake the client started, or 1006 when the connection is lost; for a
\* socket the client has not closed, the server's close (1000) or a lost
\* connection; a socket that never opened fails with 1006.
CloseCodes(s) ==
    IF s.readyState = "CLOSING" THEN {s.code, 1006}
    ELSE IF s.readyState = "OPEN" THEN {1000, 1006}
    ELSE {1006}

\* connectWithUsername(username), the first call.
connectWithUsername(u) ==
    /\ socket = 0
    /\ username' = u
    /\ this_playerId' = 0
    /\ connect(webSockets)
    /\ UNCHANGED <<reconnectAttempts, reconnectTimers, keepAliveInterval, keepAliveTimeout,
                   consecutivePingFailures, inbox, pinged, disconnected, reported>>
    /\ UNCHANGED <<now, indexVars, loopVars, clientVars, syncVars, workerVars>>

\* socket.onopen of WebSocket k: the counters are reset and startKeepAlive()
\* replaces the interval.
onopen(k) ==
    /\ webSockets[k].readyState = "CONNECTING"
    /\ webSockets' = [webSockets EXCEPT ![k].readyState = "OPEN"]
    /\ reconnectAttempts' = 0
    /\ consecutivePingFailures' = 0
    /\ keepAliveInterval' = TRUE
    /\ UNCHANGED <<socket, username, this_playerId, reconnectTimers, keepAliveTimeout, inbox,
                   pinged, disconnected, reported>>
    /\ UNCHANGED <<now, indexVars, loopVars, clientVars, syncVars, workerVars>>

\* The server's connection handler for WebSocket k: players.set, then the
\* initial STATE_UPDATE of all players (the new one among them), then the
\* welcome message.
wss_connection(k, others) ==
    /\ webSockets[k].readyState = "OPEN"
    /\ ~webSockets[k].admitted
    /\ inbox[k] = <<>>
    /\ webSockets' = [webSockets EXCEPT ![k].admitted = TRUE]
    /\ inbox' = [inbox EXCEPT ![k] = <<StateUpdate({username} \cup others), Welcome(username)>>]
    /\ UNCHANGED <<socket, username, this_playerId, reconnectAttempts, reconnectTimers,
                   keepAliveInterval, keepAliveTimeout, consecutivePingFailures, pinged,
                   disconnected, reported>>
    /\ UNCHANGED <<now, indexVars, loopVars, clientVars, syncVars, workerVars>>

\* socket.onclose of WebSocket k with event.code = code (after onerror when
\* the connection failed: stopKeepAlive() as well): stopKeepAlive(), and
\* scheduleReconnect() unless the code is 1000 or 1001.
onclose(k, code) ==
    /\ webSockets[k].readyState \in {"CONNECTING", "OPEN", "CLOSING"}
    /\ code \in CloseCodes(webSockets[k])
    /\ webSockets' = [webSockets EXCEPT ![k].readyState = "CLOSED"]
    /\ inbox' = [inbox EXCEPT ![k] = <<>>]
    /\ pinged' = pinged \ {k}
    /\ keepAliveInterval' = FALSE
    /\ keepAliveTimeout' = FALSE
    /\ consecutivePingFailures' = 0
    /\ IF code \notin {1000, 1001} /\ reconnectAttempts < maxReconnectAttempts
       THEN /\ reconnectTimers < MaxReconnectTimers
            /\ reconnectAttempts' = reconnectAttempts + 1
            /\ reconnectTimers' = reconnectTimers + 1
       ELSE UNCHANGED <<reconnectAttempts, reconnectTimers>>
    /\ UNCHANGED <<socket, username, this_playerId, disconnected, reported>>
    /\ UNCHANGED <<now, indexVars, loopVars, clientVars, syncVars, workerVars>>

\* The setTimeout callback of scheduleReconnect: connect().
reconnectTimer ==
    /\ reconnectTimers > 0
    /\ reconnectTimers' = reconnectTimers - 1
    /\ connect(webSockets)
    /\ UNCHANGED <<username, this_playerId, reconnectAttempts, keepAliveInterval, keepAliveTimeout,
                   consecutivePingFailures, inbox, pinged, disconnected, reported>>
    /\ UNCHANGED <<now, indexVars, loopVars, clientVars, syncVars, workerVars>>

\* The setInterval callback of startKeepAlive: on an open this.socket it
\* sends 'ping' and calls resetKeepAliveTimeout().  The server's message
\* handler answers 'pong' at once, if it has admitted the socket and the
\* answer is not lost (answered).
keepAliveTick(answered) ==
    /\ keepAliveInterval
    /\ socket # 0
    /\ webSockets[socket].readyState = "OPEN"
    /\ answered => webSockets[socket].admitted /\ Len(inbox[socket]) < MaxInbox
    /\ pinged' = pinged \cup {socket}
    /\ inbox' = IF answered THEN [inbox EXCEPT ![socket] = Append(@, Pong)] ELSE inbox
    /\ keepAliveTimeout' = TRUE
    /\ UNCHANGED <<webSockets, socket, username, this_playerId, reconnectAttempts, reconnectTimers,
                   keepAliveInterval, consecutivePingFailures, disconnected, reported>>
    /\ UNCHANGED <<now, indexVars, loopVars, clientVars, syncVars, workerVars>>

\* The setTimeout callback of resetKeepAliveTimeout: one failure reaches
\* maxConsecutivePingFailures, and reconnect() closes this.socket without a
\* code and calls connect().
keepAliveExpired ==
    /\ keepAliveTimeout
    /\ keepAliveTimeout' = FALSE
    /\ IF consecutivePingFailures + 1 >= maxConsecutivePingFailures
       THEN /\ consecutivePingFailures' = 0
            /\ connect(IF socket # 0 THEN WebSocket_close(webSockets, socket, 1005)
                       ELSE webSockets)
       ELSE /\ consecutivePingFailures' = consecutivePingFailures + 1
            /\ UNCHANGED <<webSockets, socket>>
    /\ UNCHANGED <<username, this_playerId, reconnectAttempts, reconnectTimers, keepAliveInterval,
                   inbox, pinged, disconnected, reported>>
    /\ UNCHANGED <<now, indexVars, loopVars, clientVars, syncVars, workerVars>>

\* socket.onmessage of WebSocket k, which delivers only while open: 'pong'
\* resets the failure count and calls resetKeepAliveTimeout(); the welcome
\* message sets this.playerId; processStateUpdate passes every record whose
\* id is not this.playerId to onUpdate.
socket_onmessage(k) ==
    /\ webSockets[k].readyState = "OPEN"
    /\ inbox[k] # <<>>
    /\ inbox' = [inbox EXCEPT ![k] = Tail(@)]
    /\ LET msg == Head(inbox[k]) IN
       IF msg.type = "pong"
       THEN /\ consecutivePingFailures' = 0
            /\ keepAliveTimeout' = TRUE
            /\ pinged' = pinged \ {k}
            /\ UNCHANGED <<this_playerId, reported>>
       ELSE IF msg.type = "welcome"
       THEN /\ this_playerId' = msg.playerId
            /\ UNCHANGED <<consecutivePingFailures, keepAliveTimeout, pinged, reported>>
       ELSE /\ reported' = {id \in msg.ids : id # this_playerId}
            /\ UNCHANGED <<consecutivePingFailures, keepAliveTimeout, pinged, this_playerId>>
    /\ UNCHANGED <<webSockets, socket, username, reconnectAttempts, reconnectTimers,
                   keepAliveInterval, disconnected>>
    /\ UNCHANGED <<now, indexVars, loopVars, clientVars, syncVars, workerVars>>

\* disconnect(): stopKeepAlive() and this.socket.close(1000, ...).
disconnect ==
    /\ socket # 0
    /\ ~disconnected
    /\ disconnected' = TRUE
    /\ keepAliveInterval' = FALSE
    /\ keepAliveTimeout' = FALSE
    /\ consecutivePingFailures' = 0
    /\ webSockets' = WebSocket_close(webSockets, socket, 1000)
    /\ UNCHANGED <<socket, username, this_playerId, reconnectAttempts, reconnectTimers, inbox,
                   pinged, reported>>
    /\ UNCHANGED <<now, indexVars, loopVars, clientVars, syncVars, workerVars>>

NextSocket ==
    \/ \E u \in Identities : connectWithUsername(u)
    \/ \E k \in ClientSockets : onopen(k)
    \/ \E k \in ClientSockets : \E others \in SUBSET (Identities \ {username}) :
          wss_connection(k, others)
    \/ \E k \in ClientSockets : \E code \in {1000, 1005, 1006} : onclose(k, code)
    \/ reconnectTimer
    \/ \E answered \in BOOLEAN : keepAliveTick(answered)
    \/ keepAliveExpired
    \/ \E k \in ClientSockets : socket_onmessage(k)
    \/ disconnect

InitSocketRun ==
    /\ now = 0
    /\ InitIndex
    /\ InitLoop
    /\ InitClient
    /\ InitExtra
    /\ rangeChecked = TRUE

SpecSocket == InitSocketRun /\ [][NextSocket]_vars

\* C36: at most one WebSocket of the client is connecting or open.
C36_AtMostOneLiveSocket ==
    Cardinality({k \in ClientSockets :
                    webSockets[k].readyState \in {"CONNECTING", "OPEN"}}) <= 1

\* C37: the keep-alive timeout makes the client reconnect only while a ping
\* is unanswered: once the pong of every ping has been received, no
\* keep-alive reconnect happens.
C37_AnsweredPingsNeverReconnect ==
    [][keepAliveExpired => pinged # {}]_vars

\* C38: after disconnect() the client creates no WebSocket and has no
\* keep-alive interval or timeout armed.
C38_NoConnectionAfterDisconnect ==
    [][disconnected =>
          /\ \A k \in ClientSockets :
                webSockets'[k].readyState = "CONNECTING"
                   => webSockets[k].readyState = "CONNECTING"
          /\ ~keepAliveInterval'
          /\ ~keepAliveTimeout']_vars

\* C39: no record with the identity the server gave this client is passed to
\* onUpdate, the records of the initial STATE_UPDATE included.
C39_OwnIdentityNeverReported ==
    username \notin reported

(***************************************************************************)
(* GameEventWorker: startProcessing and processBatch.                      *)
(***************************************************************************)
\* The entries of the stream: whether the required fields are present, and
\* whether the INSERT of the entry succeeds (it fails on a field that is no
\* integer or on a match or user that does not exist).
StreamEvents == [id : 1..MaxEvents, complete : BOOLEAN, insertable : BOOLEAN]

\* The responses of xreadgroup with '>': entries not delivered before, in
\* the order of their ids.
Batches ==
    {b \in UNION {[1..n -> StreamEvents] : n \in 1..MaxBatch} :
        /\ \A i \in 1..Len(b) : b[i].id \notin delivered
        /\ \A i, j \in 1..Len(b) : i < j => b[i].id < b[j].id}

\* startProcessing: xreadgroup resolves with events; processBatch(events)
\* suspends in pgPool.connect() and client.query('BEGIN').
xreadgroup(events) ==
    /\ workerPc = "read"
    /\ batch' = events
    /\ delivered' = delivered \cup {events[i].id : i \in 1..Len(events)}
    /\ workerPc' = "begin"
    /\ UNCHANGED <<cursor, transaction, staged, hit_log, processedEvents, acked>>
    /\ UNCHANGED <<now, indexVars, loopVars, clientVars, syncVars, socketVars>>

\* The catch and finally blocks of processBatch: ROLLBACK, client.release(),
\* and startProcessing reads again.
Rollback ==
    /\ batch' = <<>>
    /\ cursor' = 0
    /\ workerPc' = "read"
    /\ transaction' = "none"
    /\ staged' = {}
    /\ processedEvents' = <<>>

\* client.query('BEGIN') resolves (ok) or rejects.
BEGIN(ok) ==
    /\ workerPc = "begin"
    /\ IF ok
       THEN /\ transaction' = "open"
            /\ processedEvents' = <<>>
            /\ cursor' = 1
            /\ workerPc' = "insert"
            /\ UNCHANGED <<batch, staged>>
       ELSE Rollback
    /\ UNCHANGED <<hit_log, acked, delivered>>
    /\ UNCHANGED <<now, indexVars, loopVars, clientVars, syncVars, socketVars>>

\* One iteration of the for loop: an entry with a required field missing is
\* skipped; the INSERT ... ON CONFLICT (event_id) DO NOTHING of the others
\* succeeds and the entry is pushed to processedEvents, or fails and the
\* error is caught and logged.  A failed statement aborts the transaction,
\* and every later statement of an aborted transaction fails.
INSERT ==
    /\ workerPc = "insert"
    /\ cursor <= Len(batch)
    /\ LET event == batch[cursor] IN
       IF ~event.complete
       THEN UNCHANGED <<transaction, staged, processedEvents>>
       ELSE IF transaction = "open" /\ event.insertable
       THEN /\ staged' = IF event.id \in hit_log THEN staged ELSE staged \cup {event.id}
            /\ processedEvents' = Append(processedEvents, event.id)
            /\ UNCHANGED transaction
       ELSE /\ transaction' = "aborted"
            /\ staged' = {}
            /\ UNCHANGED processedEvents
    /\ cursor' = cursor + 1
    /\ UNCHANGED <<batch, workerPc, hit_log, acked, delivered>>
    /\ UNCHANGED <<now, indexVars, loopVars, clientVars, syncVars, socketVars>>

\* client.query('COMMIT') after the loop: it resolves (ok), committing the
\* staged rows of an open transaction and rolling an aborted transaction
\* back, or rejects.
COMMIT(ok) ==
    /\ workerPc = "insert"
    /\ cursor > Len(batch)
    /\ IF ok
       THEN /\ hit_log' = IF transaction = "open" THEN hit_log \cup staged ELSE hit_log
            /\ transaction' = "none"
            /\ staged' = {}
            /\ cursor' = 1
            /\ workerPc' = "ack"
            /\ UNCHANGED <<batch, processedEvents>>
       ELSE /\ Rollback
            /\ UNCHANGED hit_log
    /\ UNCHANGED <<acked, delivered>>
    /\ UNCHANGED <<now, indexVars, loopVars, clientVars, syncVars, socketVars>>

\* redisClient.xack for the next entry of processedEvents resolves (ok) or
\* rejects; after the last one the finally block releases the client.
xack(ok) ==
    /\ workerPc = "ack"
    /\ IF cursor > Len(processedEvents)
       THEN /\ ok
            /\ Rollback
            /\ UNCHANGED acked
       ELSE IF ok
       THEN /\ acked' = acked \cup {processedEvents[cursor]}
            /\ cursor' = cursor + 1
            /\ UNCHANGED <<batch, workerPc, transaction, staged, processedEvents>>
       ELSE /\ Rollback
            /\ UNCHANGED acked
    /\ UNCHANGED <<hit_log, delivered>>
    /\ UNCHANGED <<now, indexVars, loopVars, clientVars, syncVars, socketVars>>

NextWorker ==
    \/ \E events \in Batches : xreadgroup(events)
    \/ \E ok \in BOOLEAN : BEGIN(ok)
    \/ INSERT
    \/ \E ok \in BOOLEAN : COMMIT(ok)
    \/ \E ok \in BOOLEAN : xack(ok)

InitWorkerRun ==
    /\ now = 0
    /\ InitIndex
    /\ InitLoop
    /\ InitClient
    /\ InitExtra
    /\ rangeChecked = TRUE

SpecWorker == InitWorkerRun /\ [][NextWorker]_vars

\* C40: every acknowledged stream entry has its row committed in hit_log.
C40_AckOnlyAfterCommit ==
    acked \subseteq hit_log

====
